---- MODULE Spec2Model ----
(***************************************************************************)
(* leptos-image: the derivative store (ImageOptimizer::create_image and    *)
(* the older CachedImage::create_image), the lookup handler, the precache  *)
(* job and the in-memory placeholder cache, as one state machine.          *)
(*                                                                         *)
(* A file's content is abstracted to "absent", "empty" (created or         *)
(* truncated, nothing written), "partial" (a failed write left a prefix)   *)
(* and "complete" (all bytes of the artifact of that path).                *)
(***************************************************************************)
EXTENDS Integers, Sequences, FiniteSets, TLC

\* ---------------------------------------------------------------- bounds
\* number of tasks (handler requests, precache tasks, add_image_cache calls)
MaxCalls == 2
\* largest parallelism an ImageOptimizer is built with
MaxParallelism == 1
\* longest list of images the precache job finds
MaxBatch == 2
\* number of transforms that hit an image, encoder or I/O failure
MaxFaults == 2

\* the task slots: a run of Spec starts at most MaxCalls tasks, a run of RaceSpec
\* (three tasks on one key) one more
Calls == 1..(MaxCalls + 1)

\* ---------------------------------------------------------------- CachedImage
ResizeOption == [variant |-> "Resize", width |-> 100, height |-> 100, quality |-> 75]
BlurOption == [variant |-> "Blur", width |-> 20, height |-> 20,
               svg_width |-> 100, svg_height |-> 100, sigma |-> 15]

CachedImage == [src : {"cat.png"}, option : {ResizeOption, BlurOption}]

NoImage == [src |-> "", option |-> [variant |-> "None"]]

\* ---------------------------------------------------------------- wire form
\* decimal text of the numbers the model uses
NumText == (0 :> "0") @@ (15 :> "15") @@ (20 :> "20") @@ (75 :> "75")
           @@ (100 :> "100") @@ (300 :> "300")

\* widths of the integer fields: u8 for quality and sigma, u32 for the rest
U8Bits == 8
U32Bits == 32

\* n fits an unsigned integer of that width (every number of the model is
\* below 2^31, so it fits any width from 31 bits on)
Fits(n, bits) == IF bits >= 31 THEN TRUE ELSE n < 2^bits

ParseOk(s, bits) == \E n \in DOMAIN NumText : NumText[n] = s /\ Fits(n, bits)
ParseNum(s) == CHOOSE n \in DOMAIN NumText : NumText[n] = s

QsField(k, v) == [k |-> k, v |-> v]

\* serde_qs::to_string of a CachedImage: src, then the fields of the one
\* variant under its short tag, as a sequence of name=value pairs
to_string(img) ==
    LET o == img.option IN
    <<QsField(<<"src">>, img.src)>> \o
    (IF o.variant = "Resize"
     THEN << QsField(<<"option", "r", "w">>, NumText[o.width]),
             QsField(<<"option", "r", "h">>, NumText[o.height]),
             QsField(<<"option", "r", "q">>, NumText[o.quality]) >>
     ELSE << QsField(<<"option", "b", "w">>, NumText[o.width]),
             QsField(<<"option", "b", "h">>, NumText[o.height]),
             QsField(<<"option", "b", "sw">>, NumText[o.svg_width]),
             QsField(<<"option", "b", "sh">>, NumText[o.svg_height]),
             QsField(<<"option", "b", "s">>, NumText[o.sigma]) >>)

QsHas(q, name) == \E i \in 1..Len(q) : q[i].k = name
QsGet(q, name) == q[CHOOSE i \in 1..Len(q) : q[i].k = name].v
QsNum(q, name, bits) == QsHas(q, name) /\ ParseOk(QsGet(q, name), bits)
QsTags(q) == { q[i].k[2] : i \in { j \in 1..Len(q) : Len(q[j].k) = 3 /\ q[j].k[1] = "option" } }

DecodeErr == [ok |-> FALSE, val |-> NoImage]

\* serde_qs::from_str::<CachedImage>: src and exactly one known variant with
\* all its fields in range; unknown fields are ignored
from_str(q) ==
    IF ~ QsHas(q, <<"src">>) \/ Cardinality(QsTags(q)) # 1 THEN DecodeErr
    ELSE IF QsTags(q) = {"r"} THEN
        IF /\ QsNum(q, <<"option", "r", "w">>, U32Bits)
           /\ QsNum(q, <<"option", "r", "h">>, U32Bits)
           /\ QsNum(q, <<"option", "r", "q">>, U8Bits)
        THEN [ok |-> TRUE,
              val |-> [src |-> QsGet(q, <<"src">>),
                       option |-> [variant |-> "Resize",
                                   width |-> ParseNum(QsGet(q, <<"option", "r", "w">>)),
                                   height |-> ParseNum(QsGet(q, <<"option", "r", "h">>)),
                                   quality |-> ParseNum(QsGet(q, <<"option", "r", "q">>))]]]
        ELSE DecodeErr
    ELSE IF QsTags(q) = {"b"} THEN
        IF /\ QsNum(q, <<"option", "b", "w">>, U32Bits)
           /\ QsNum(q, <<"option", "b", "h">>, U32Bits)
           /\ QsNum(q, <<"option", "b", "sw">>, U32Bits)
           /\ QsNum(q, <<"option", "b", "sh">>, U32Bits)
           /\ QsNum(q, <<"option", "b", "s">>, U8Bits)
        THEN [ok |-> TRUE,
              val |-> [src |-> QsGet(q, <<"src">>),
                       option |-> [variant |-> "Blur",
                                   width |-> ParseNum(QsGet(q, <<"option", "b", "w">>)),
                                   height |-> ParseNum(QsGet(q, <<"option", "b", "h">>)),
                                   svg_width |-> ParseNum(QsGet(q, <<"option", "b", "sw">>)),
                                   svg_height |-> ParseNum(QsGet(q, <<"option", "b", "sh">>)),
                                   sigma |-> ParseNum(QsGet(q, <<"option", "b", "s">>))]]]
        ELSE DecodeErr
    ELSE DecodeErr

\* A URL is the sequence of its pieces between '?' characters; the path piece
\* is one name with an empty value.
PathPiece(p) == <<QsField(<<p>>, "")>>

get_url_encoded(img, handler_path) == <<PathPiece(handler_path), to_string(img)>>

\* url.split('?').filter(|s| *s != "?").last(): the last piece
from_url_encoded(url) == from_str(url[Len(url)])

HandlerPath == "/cache/image"

\* request URIs whose query is not a CachedImage: unknown operation tag,
\* missing field, non-numeric value, u8 overflow, no query
BadUrls ==
    { <<PathPiece(HandlerPath),
        <<QsField(<<"src">>, "cat.png"), QsField(<<"option", "z", "w">>, "100")>> >>,
      <<PathPiece(HandlerPath),
        <<QsField(<<"src">>, "cat.png"), QsField(<<"option", "r", "w">>, "100"),
          QsField(<<"option", "r", "h">>, "100")>> >>,
      <<PathPiece(HandlerPath),
        <<QsField(<<"src">>, "cat.png"), QsField(<<"option", "r", "w">>, "abc"),
          QsField(<<"option", "r", "h">>, "100"), QsField(<<"option", "r", "q">>, "75")>> >>,
      <<PathPiece(HandlerPath),
        <<QsField(<<"src">>, "cat.png"), QsField(<<"option", "r", "w">>, "100"),
          QsField(<<"option", "r", "h">>, "100"), QsField(<<"option", "r", "q">>, "300")>> >>,
      <<PathPiece(HandlerPath)>> }

Urls == { get_url_encoded(i, HandlerPath) : i \in CachedImage } \cup BadUrls

\* ---------------------------------------------------------------- paths
\* Path::set_extension replaces the text after the last '.' of the file name
FileStem == ("cat.png" :> "cat")
set_extension(src, ext) == <<FileStem[src], ext>>

\* base64 of the wire key: a reversible wrapping
Base64(q) == [b64 |-> q]

Extension(img) == IF img.option.variant = "Resize" THEN "webp" ELSE "svg"

\* ImageOptimizer::get_file_path: cache/image/<base64 key>/<src with extension>
get_file_path(img) ==
    [dir |-> "cache/image", key |-> Base64(to_string(img)),
     file |-> set_extension(img.src, Extension(img))]

\* image_service: the derive(Serialize) names are not shortened
service_to_string(img) ==
    LET o == img.option IN
    <<QsField(<<"src">>, img.src)>> \o
    (IF o.variant = "Resize"
     THEN << QsField(<<"option", "Resize", "width">>, NumText[o.width]),
             QsField(<<"option", "Resize", "height">>, NumText[o.height]),
             QsField(<<"option", "Resize", "quality">>, NumText[o.quality]) >>
     ELSE << QsField(<<"option", "Blur", "width">>, NumText[o.width]),
             QsField(<<"option", "Blur", "height">>, NumText[o.height]),
             QsField(<<"option", "Blur", "svg_width">>, NumText[o.svg_width]),
             QsField(<<"option", "Blur", "svg_height">>, NumText[o.svg_height]),
             QsField(<<"option", "Blur", "sigma">>, NumText[o.sigma]) >>)

\* image_service CachedImage::get_file_path: cache/<wire key>/<src with extension>
service_get_file_path(img) ==
    [dir |-> "cache", key |-> service_to_string(img),
     file |-> set_extension(img.src, Extension(img))]

Paths == { get_file_path(i) : i \in CachedImage } \cup
         { service_get_file_path(i) : i \in CachedImage }

Content == {"absent", "empty", "partial", "complete"}

\* file_exists with a slip: the test looks at a path that never exists
file_exists_wrong_path(files_, path) == FALSE

\* tokio::fs::metadata(path).await.is_ok()
file_exists(files_, path) == files_[path] # "absent"

\* ---------------------------------------------------------------- text
\* A text is the sequence of its bytes. Printable lists the ASCII characters
\* from 32 (space) to 126 in order, so the byte of a character is 31 plus its
\* position (the double quote, the backslash and the backtick are spelled out).
Printable ==
    << " ", "!", "quote", "#", "$", "%", "&", "'", "(", ")", "*", "+", ",", "-", ".", "/",
       "0", "1", "2", "3", "4", "5", "6", "7", "8", "9", ":", ";", "<", "=", ">", "?",
       "@", "A", "B", "C", "D", "E", "F", "G", "H", "I", "J", "K", "L", "M", "N", "O",
       "P", "Q", "R", "S", "T", "U", "V", "W", "X", "Y", "Z", "[", "backslash", "]", "^", "_",
       "backtick", "a", "b", "c", "d", "e", "f", "g", "h", "i", "j", "k", "l", "m", "n", "o",
       "p", "q", "r", "s", "t", "u", "v", "w", "x", "y", "z", "{", "|", "}", "~" >>

Ord(ch) == 31 + CHOOSE i \in 1..Len(Printable) : Printable[i] = ch

\* the text of a literal given by its characters
Bytes(chars) == [i \in 1..Len(chars) |-> Ord(chars[i])]

IsDigit(b) == b \in 48..57
IsAlnum(b) == IsDigit(b) \/ b \in 65..90 \/ b \in 97..122

\* serde_qs QS_ENCODE_SET: everything but alphanumerics, space, '*', '-', '.'
\* and '_' is written %XX; a space is written '+'
QsKeeps(b) == IsAlnum(b) \/ b \in {42, 45, 46, 95}

HexDigit(n) == IF n < 10 THEN 48 + n ELSE 55 + n

HexVal(b) ==
    IF IsDigit(b) THEN b - 48
    ELSE IF b \in 65..70 THEN b - 55
    ELSE IF b \in 97..102 THEN b - 87
    ELSE -1

\* pct_encode_byte with a slip: '&' and '?' are taken for safe characters
pct_encode_byte_keeps_marks(b) ==
    IF QsKeeps(b) \/ b \in {38, 63} THEN <<b>>
    ELSE IF b = 32 THEN <<43>>
    ELSE <<37, HexDigit(b \div 16), HexDigit(b % 16)>>

pct_encode_byte(b) ==
    IF QsKeeps(b) THEN <<b>>
    ELSE IF b = 32 THEN <<43>>
    ELSE <<37, HexDigit(b \div 16), HexDigit(b % 16)>>

\* the texts of a sequence one after the other
RECURSIVE Flatten(_)
Flatten(texts) ==
    IF texts = << >> THEN << >>
    ELSE IF Len(texts) = 1 THEN texts[1]
    ELSE LET mid == Len(texts) \div 2
         IN Flatten(SubSeq(texts, 1, mid)) \o Flatten(SubSeq(texts, mid + 1, Len(texts)))

pct_encode(text) == Flatten([i \in 1..Len(text) |-> pct_encode_byte(text[i])])

\* serde_qs value decoding: '+' is a space, %XX is the byte XX, anything else
\* stands for itself. The two digits of an escape are not '%', so no escape
\* starts inside another.
pct_decode(text) ==
    LET n == Len(text)
        esc(i) == /\ i >= 1 /\ i + 2 <= n /\ text[i] = 37
                  /\ HexVal(text[i + 1]) >= 0 /\ HexVal(text[i + 2]) >= 0
    IN Flatten([i \in 1..n |->
                  IF esc(i - 1) \/ esc(i - 2) THEN << >>
                  ELSE IF esc(i) THEN <<16 * HexVal(text[i + 1]) + HexVal(text[i + 2])>>
                  ELSE IF text[i] = 43 THEN <<32>>
                  ELSE <<text[i]>>])

\* Display of an unsigned integer: its decimal digits
RECURSIVE dec(_)
dec(n) == IF n < 10 THEN <<48 + n>> ELSE dec(n \div 10) \o <<48 + (n % 10)>>

\* the largest value of an unsigned integer of that width (the model's
\* integers end at 2^31 - 1)
MaxOf(bits) == IF bits >= 31 THEN 2147483647 ELSE 2^bits - 1

\* str::parse of an unsigned integer: digits only, the value within the width
RECURSIVE parse_dec(_, _, _)
parse_dec(text, bits, acc) ==
    IF text = << >> THEN [ok |-> TRUE, val |-> acc]
    ELSE IF ~ IsDigit(Head(text)) THEN [ok |-> FALSE, val |-> 0]
    ELSE IF acc > (MaxOf(bits) - (Head(text) - 48)) \div 10 THEN [ok |-> FALSE, val |-> 0]
    ELSE parse_dec(Tail(text), bits, 10 * acc + (Head(text) - 48))

parse_uint(text, bits) ==
    IF text = << >> THEN [ok |-> FALSE, val |-> 0] ELSE parse_dec(text, bits, 0)

\* the pieces of text between occurrences of the byte sep (str::split)
split(text, sep) ==
    LET n == Len(text)
        at == { i \in 1..n : text[i] = sep }
        nth(j) == CHOOSE i \in at : Cardinality({ x \in at : x < i }) = j - 1
        first(j) == IF j = 1 THEN 1 ELSE nth(j - 1) + 1
        last(j) == IF j = Cardinality(at) + 1 THEN n ELSE nth(j) - 1
    IN [j \in 1..(Cardinality(at) + 1) |-> SubSeq(text, first(j), last(j))]

join(pieces, sep) ==
    Flatten([i \in 1..(2 * Len(pieces) - 1) |->
               IF i % 2 = 1 THEN pieces[(i + 1) \div 2] ELSE <<sep>>])

\* ---------------------------------------------------------------- wire text
\* the names of the keys as texts
NameBytes ==
    ("src" :> Bytes(<<"s", "r", "c">>)) @@
    ("option" :> Bytes(<<"o", "p", "t", "i", "o", "n">>)) @@
    ("r" :> Bytes(<<"r">>)) @@ ("b" :> Bytes(<<"b">>)) @@
    ("w" :> Bytes(<<"w">>)) @@ ("h" :> Bytes(<<"h">>)) @@
    ("q" :> Bytes(<<"q">>)) @@ ("sw" :> Bytes(<<"s", "w">>)) @@
    ("sh" :> Bytes(<<"s", "h">>)) @@ ("s" :> Bytes(<<"s">>))

KeyNames(path) == [j \in 1..Len(path) |-> NameBytes[path[j]]]

\* serde_qs writes a nested key as root[name][name]
RECURSIVE key_text(_)
key_text(names) ==
    IF Len(names) = 1 THEN pct_encode(names[1])
    ELSE key_text(SubSeq(names, 1, Len(names) - 1))
         \o <<91>> \o pct_encode(names[Len(names)]) \o <<93>>

\* the integer fields of the variant in declaration order: tag, name, value
OptionFields(o) ==
    IF o.variant = "Resize"
    THEN << <<"r", "w", o.width>>, <<"r", "h", o.height>>, <<"r", "q", o.quality>> >>
    ELSE << <<"b", "w", o.width>>, <<"b", "h", o.height>>, <<"b", "sw", o.svg_width>>,
            <<"b", "sh", o.svg_height>>, <<"b", "s", o.sigma>> >>

\* serde_qs::to_string(&CachedImage) as text: src=<src>&option[r][w]=<w>&...
to_string_text(img) ==
    LET F == OptionFields(img.option) IN
    join(<< key_text(KeyNames(<<"src">>)) \o <<61>> \o pct_encode(img.src) >> \o
         [i \in 1..Len(F) |->
            key_text(KeyNames(<<"option", F[i][1], F[i][2]>>)) \o <<61>> \o dec(F[i][3])],
         38)

\* a key root[a][b] as the sequence of its names
key_names(key) ==
    LET parts == split(key, 91) IN
    [j \in 1..Len(parts) |->
        pct_decode(IF j > 1 /\ parts[j] # << >> /\ parts[j][Len(parts[j])] = 93
                   THEN SubSeq(parts[j], 1, Len(parts[j]) - 1)
                   ELSE parts[j])]

\* one key=value piece: the key up to the first '=', the decoded value after it
qs_pair(piece) ==
    LET eq == { i \in 1..Len(piece) : piece[i] = 61 }
        at == IF eq = {} THEN Len(piece) + 1 ELSE CHOOSE i \in eq : \A j \in eq : i <= j
    IN [k |-> key_names(SubSeq(piece, 1, at - 1)),
        v |-> pct_decode(SubSeq(piece, at + 1, Len(piece)))]

\* the pairs of a query string, in order
qs_pairs(text) ==
    LET pieces == SelectSeq(split(text, 38), LAMBDA p : p # << >>)
    IN [i \in 1..Len(pieces) |-> qs_pair(pieces[i])]

QtCount(q, path) == Cardinality({ i \in 1..Len(q) : q[i].k = KeyNames(path) })
QtGet(q, path) == q[CHOOSE i \in 1..Len(q) : q[i].k = KeyNames(path)].v
QtNum(q, path, bits) == QtCount(q, path) = 1 /\ parse_uint(QtGet(q, path), bits).ok
QtVal(q, path, bits) == parse_uint(QtGet(q, path), bits).val
QtTags(q) ==
    { q[i].k[2] : i \in { j \in 1..Len(q) : Len(q[j].k) >= 2 /\ q[j].k[1] = NameBytes["option"] } }
QtUnique(q) == \A i, j \in 1..Len(q) : q[i].k = q[j].k => i = j

NoTextImage == [src |-> << >>, option |-> [variant |-> "None"]]
TextDecodeErr == [ok |-> FALSE, val |-> NoTextImage]

\* serde_qs::from_str::<CachedImage> of a text: no key twice, src, and exactly
\* one known variant with all its fields in range; other keys are ignored
from_str_text(text) ==
    LET q == qs_pairs(text) IN
    IF ~ QtUnique(q) \/ QtCount(q, <<"src">>) # 1 \/ Cardinality(QtTags(q)) # 1 THEN TextDecodeErr
    ELSE IF QtTags(q) = {NameBytes["r"]} THEN
        IF /\ QtNum(q, <<"option", "r", "w">>, U32Bits)
           /\ QtNum(q, <<"option", "r", "h">>, U32Bits)
           /\ QtNum(q, <<"option", "r", "q">>, U8Bits)
        THEN [ok |-> TRUE,
              val |-> [src |-> QtGet(q, <<"src">>),
                       option |-> [variant |-> "Resize",
                                   width |-> QtVal(q, <<"option", "r", "w">>, U32Bits),
                                   height |-> QtVal(q, <<"option", "r", "h">>, U32Bits),
                                   quality |-> QtVal(q, <<"option", "r", "q">>, U8Bits)]]]
        ELSE TextDecodeErr
    ELSE IF QtTags(q) = {NameBytes["b"]} THEN
        IF /\ QtNum(q, <<"option", "b", "w">>, U32Bits)
           /\ QtNum(q, <<"option", "b", "h">>, U32Bits)
           /\ QtNum(q, <<"option", "b", "sw">>, U32Bits)
           /\ QtNum(q, <<"option", "b", "sh">>, U32Bits)
           /\ QtNum(q, <<"option", "b", "s">>, U8Bits)
        THEN [ok |-> TRUE,
              val |-> [src |-> QtGet(q, <<"src">>),
                       option |-> [variant |-> "Blur",
                                   width |-> QtVal(q, <<"option", "b", "w">>, U32Bits),
                                   height |-> QtVal(q, <<"option", "b", "h">>, U32Bits),
                                   svg_width |-> QtVal(q, <<"option", "b", "sw">>, U32Bits),
                                   svg_height |-> QtVal(q, <<"option", "b", "sh">>, U32Bits),
                                   sigma |-> QtVal(q, <<"option", "b", "s">>, U8Bits)]]]
        ELSE TextDecodeErr
    ELSE TextDecodeErr

\* format!("{}?{}", handler_path, params)
get_url_encoded_text(img, handler_path) == handler_path \o <<63>> \o to_string_text(img)

\* from_url_encoded_text with a slip: the first piece is taken for the query
from_url_encoded_text_first(url) ==
    LET pieces == SelectSeq(split(url, 63), LAMBDA s : s # <<63>>)
    IN from_str_text(pieces[1])

\* url.split('?').filter(|s| *s != "?").last(), then serde_qs::from_str
from_url_encoded_text(url) ==
    LET pieces == SelectSeq(split(url, 63), LAMBDA s : s # <<63>>)
    IN from_str_text(pieces[Len(pieces)])

\* ---------------------------------------------------------------- path text
\* base64 STANDARD: A-Z a-z 0-9 + / with '=' padding
B64Char(v) ==
    IF v < 26 THEN 65 + v
    ELSE IF v < 52 THEN 97 + (v - 26)
    ELSE IF v < 62 THEN 48 + (v - 52)
    ELSE IF v = 62 THEN 43 ELSE 47

B64Val(b) ==
    IF b \in 65..90 THEN b - 65
    ELSE IF b \in 97..122 THEN b - 97 + 26
    ELSE IF b \in 48..57 THEN b - 48 + 52
    ELSE IF b = 43 THEN 62
    ELSE IF b = 47 THEN 63
    ELSE -1

\* general_purpose::STANDARD.encode
base64_encode(bytes) ==
    LET n == Len(bytes)
        at(i) == IF i <= n THEN bytes[i] ELSE 0
        sym(g, k) ==
            CASE k = 0 -> B64Char(at(3 * g + 1) \div 4)
              [] k = 1 -> B64Char((at(3 * g + 1) % 4) * 16 + at(3 * g + 2) \div 16)
              [] k = 2 -> IF 3 * g + 2 > n THEN 61
                          ELSE B64Char((at(3 * g + 2) % 16) * 4 + at(3 * g + 3) \div 64)
              [] OTHER -> IF 3 * g + 3 > n THEN 61 ELSE B64Char(at(3 * g + 3) % 64)
    IN [i \in 1..(4 * ((n + 2) \div 3)) |-> sym((i - 1) \div 4, (i - 1) % 4)]

\* general_purpose::STANDARD.decode: whole groups of four symbols, canonical
\* padding, no stray bits
base64_decode(text) ==
    LET n == Len(text)
        npad == IF n >= 2 /\ text[n] = 61 /\ text[n - 1] = 61 THEN 2
                ELSE IF n >= 1 /\ text[n] = 61 THEN 1 ELSE 0
        v(i) == IF i <= n - npad THEN B64Val(text[i]) ELSE 0
        ok == /\ n % 4 = 0
              /\ \A i \in 1..(n - npad) : B64Val(text[i]) >= 0
              /\ npad = 1 => v(n - 1) % 4 = 0
              /\ npad = 2 => v(n - 2) % 16 = 0
        byte(g, k) ==
            CASE k = 0 -> v(4 * g + 1) * 4 + v(4 * g + 2) \div 16
              [] k = 1 -> (v(4 * g + 2) % 16) * 16 + v(4 * g + 3) \div 4
              [] OTHER -> (v(4 * g + 3) % 4) * 64 + v(4 * g + 4)
    IN IF ok
       THEN [ok |-> TRUE,
             val |-> [i \in 1..(3 * (n \div 4) - npad) |-> byte((i - 1) \div 3, (i - 1) % 3)]]
       ELSE [ok |-> FALSE, val |-> << >>]

\* String::from_utf8(bytes).is_ok(): every lead byte has its continuation
\* bytes and every continuation byte its lead
is_utf8(bytes) ==
    LET n == Len(bytes)
        at(i) == IF i >= 1 /\ i <= n THEN bytes[i] ELSE 0
        cont(i) == at(i) \in 128..191
        need(i) == IF at(i) \in 194..223 THEN 1
                   ELSE IF at(i) \in 224..239 THEN 2
                   ELSE IF at(i) \in 240..244 THEN 3 ELSE 0
    IN \A i \in 1..n :
        /\ at(i) \notin {192, 193} /\ at(i) <= 244
        /\ \A d \in 1..need(i) : cont(i + d)
        /\ cont(i) => \E d \in 1..3 : need(i - d) >= d /\ \A e \in 1..(d - 1) : cont(i - e)

\* trim_start_matches('/') and trim_end_matches('/')
trim_slashes(seg) ==
    LET keep == { i \in 1..Len(seg) : seg[i] # 47 }
    IN IF keep = {} THEN << >>
       ELSE SubSeq(seg, CHOOSE i \in keep : \A j \in keep : i <= j,
                        CHOOSE i \in keep : \A j \in keep : i >= j)

\* path_from_segments: the trimmed, non-empty segments collected into a PathBuf
path_from_segments(segments) ==
    join(SelectSeq([i \in 1..Len(segments) |-> trim_slashes(segments[i])],
                   LAMBDA seg : seg # << >>), 47)

\* Path::file_stem of a file name: the name up to its last '.', or the whole
\* name when it has no '.' or only a leading one
file_stem(name) ==
    LET dots == { i \in 1..Len(name) : name[i] = 46 }
        last == CHOOSE i \in dots : \A j \in dots : i >= j
    IN IF dots = {} \/ last = 1 THEN name ELSE SubSeq(name, 1, last - 1)

\* set_extension_text with a slip: the extension is added after the whole name
set_extension_text_appends(path, ext) ==
    IF path = << >> THEN path ELSE path \o <<46>> \o ext

\* PathBuf::set_extension: the path is cut at the end of the stem of its file
\* name (the last component that is a name) and '.' and the extension are
\* added; a path without a file name is left as it is
set_extension_text(path, ext) ==
    LET segs == split(path, 47)
        names == { i \in 1..Len(segs) : segs[i] # << >> /\ segs[i] # <<46>> }
        idx == CHOOSE i \in names : \A j \in names : i >= j
        start == Len(join(SubSeq(segs, 1, idx - 1), 47)) + (IF idx > 1 THEN 1 ELSE 0)
    IN IF names = {} \/ segs[idx] = <<46, 46>> THEN path
       ELSE SubSeq(path, 1, start + Len(file_stem(segs[idx]))) \o <<46>> \o ext

CacheImageDir == Bytes(<<"c", "a", "c", "h", "e", "/", "i", "m", "a", "g", "e">>)
ExtWebp == Bytes(<<"w", "e", "b", "p">>)
ExtSvg == Bytes(<<"s", "v", "g">>)

ExtensionText(img) == IF img.option.variant = "Resize" THEN ExtWebp ELSE ExtSvg

\* longest file name of the filesystem, in bytes
NameMax == 255

\* get_file_path_text with a slip: a name longer than NameMax is cut to fit
get_file_path_text_truncating(img) ==
    LET segs == split(set_extension_text(
                    path_from_segments(<<CacheImageDir, base64_encode(to_string_text(img)),
                                         img.src>>),
                    ExtensionText(img)), 47)
    IN join([i \in 1..Len(segs) |->
               IF Len(segs[i]) > NameMax THEN SubSeq(segs[i], 1, NameMax) ELSE segs[i]], 47)

\* CachedImage::get_file_path as text
get_file_path_text(img) ==
    set_extension_text(
        path_from_segments(<<CacheImageDir, base64_encode(to_string_text(img)), img.src>>),
        ExtensionText(img))

\* from_file_path_pick with a slip: the last segment that decodes is taken
from_file_path_pick_last(found) == CHOOSE i \in found : \A j \in found : i >= j

\* find_map: the first segment that decodes
from_file_path_pick(found) == CHOOSE i \in found : \A j \in found : i <= j

\* CachedImage::from_file_path: the first '/' segment that is base64 of UTF-8
\* text that serde_qs decodes
from_file_path(path) ==
    LET segs == split(path, 47)
        text(i) == base64_decode(segs[i])
        found == { i \in 1..Len(segs) :
                     /\ text(i).ok /\ is_utf8(text(i).val)
                     /\ from_str_text(text(i).val).ok }
    IN IF found = {} THEN TextDecodeErr
       ELSE from_str_text(text(from_file_path_pick(found)).val)

\* ---------------------------------------------------------------- state
VARIABLES
    parallelism,  \* the N the ImageOptimizer was built with
    permits,      \* available permits of ImageOptimizer.semaphore
    files,        \* the filesystem under the root: path -> content
    cache,        \* ImageOptimizer.cache: CachedImage -> text read from its file
    call,         \* the tasks: position, input, result
    started,      \* number of tasks started so far
    precache,     \* the cache_app_images job
    faults,       \* the tasks whose transform hit an image, encoder or I/O failure
    codec,        \* one CachedImage taken through its encodings and back
    discovery,    \* one find_app_images_from_paths call
    transform,    \* one create_optimized_image call on its own
    limit         \* the number of tasks started in this run

\* the calls followed on their own, outside the store
single == <<codec, discovery, transform, limit>>

vars == <<parallelism, permits, files, cache, call, started, precache, faults, single>>

Results == {"none", "Ok(true)", "Ok(false)", "ImageError", "JoinError", "IOError"}
IsOk(r) == r \in {"Ok(true)", "Ok(false)"}
IsErr(r) == r \in {"ImageError", "JoinError", "IOError"}

IdleCall ==
    [pc |-> "idle", origin |-> "none", img |-> NoImage, res |-> "none", status |-> 0,
     url |-> << >>, permit |-> FALSE, atCheck |-> "none", atReturn |-> "none", before |-> {}, todo |-> << >>]

\* the path a task's image is stored at: cache_app_images goes through
\* image_service, the handler and add_image_cache through the ImageOptimizer
PathOf(c) ==
    IF call[c].origin = "precache" THEN service_get_file_path(call[c].img)
    ELSE get_file_path(call[c].img)

\* tasks whose create_image has returned
Returned == { c \in Calls : call[c].res # "none" }

CodecIdle == [pc |-> "idle"]
DiscoveryIdle == [pc |-> "idle"]
TransformIdle == [pc |-> "idle"]

\* ImageOptimizer::new: Semaphore::new(parallelism), an empty DashMap
Init ==
    /\ codec = CodecIdle /\ discovery = DiscoveryIdle /\ transform = TransformIdle
    /\ limit = MaxCalls
    /\ parallelism \in 1..MaxParallelism
    /\ permits = parallelism
    /\ files = [p \in Paths |-> "absent"]
    /\ cache = << >>
    /\ call = [c \in Calls |-> IdleCall]
    /\ started = 0
    /\ precache = [pc |-> "idle", images |-> << >>, tasks |-> << >>, result |-> "none"]
    /\ faults = {}

\* ---------------------------------------------------------------- create_image
\* `let _ = semaphore.acquire().await`: the wildcard binds nothing, so the
\* SemaphorePermit is dropped, and the permit returned, at the end of the statement
permit_bound == FALSE

\* create_image_result with a slip: the last arm reports created = false
create_image_result_never_created(task) ==
    CASE task = "panic" -> "JoinError"
      [] task = "ImageError" -> "ImageError"
      [] task = "IOError" -> "IOError"
      [] OTHER -> "Ok(false)"

\* match task.await: JoinError, the task's error, or created = true
create_image_result(task) ==
    CASE task = "panic" -> "JoinError"
      [] task = "ImageError" -> "ImageError"
      [] task = "IOError" -> "IOError"
      [] OTHER -> "Ok(true)"

\* add_file_to_cache_takes with a slip: the variant test is missing
add_file_to_cache_takes_any(img) == TRUE

\* add_file_to_cache_takes with a slip: the test names the other variant
add_file_to_cache_takes_resize(img) == img.option.variant = "Resize"

\* add_file_to_cache: if let CachedImageOption::Blur(_) = image.option
add_file_to_cache_takes(img) == img.option.variant = "Blur"

\* image_cache_handler_status with a slip: a decode failure answered as a
\* server error; a creation error answered as not found
image_cache_handler_status_none_as_500(cache_result, served) ==
    CASE cache_result = "Ok(Some)" -> served
      [] OTHER -> 500

image_cache_handler_status_err_as_404(cache_result, served) ==
    CASE cache_result = "Ok(Some)" -> served
      [] OTHER -> 404

\* image_cache_handler: the response for each outcome of check_cache_image
image_cache_handler_status(cache_result, served) ==
    CASE cache_result = "Ok(Some)" -> served
      [] cache_result = "Ok(None)" -> 404
      [] OTHER -> 500

\* where the caller of create_image goes on without suspending: a spawned
\* precache task is finished; check_cache_image hands an error to the handler,
\* reads the file of a created Blur image, or goes to the file server
AfterCreate(origin, img, r) ==
    IF origin # "handler" THEN "returned"
    ELSE IF IsErr(r) THEN "done"
    ELSE IF r = "Ok(true)" /\ add_file_to_cache_takes(img) THEN "addcache"
    ELSE "serve"

\* the task leaves create_image with result r; content is the file as it is then
Return(c, r, content) ==
    [call EXCEPT ![c].pc = AfterCreate(call[c].origin, call[c].img, r),
                 ![c].res = r, ![c].atReturn = content, ![c].permit = FALSE,
                 ![c].status = IF call[c].origin = "handler" /\ IsErr(r)
                               THEN image_cache_handler_status("Err", 0) ELSE 0]

\* Released with a slip: a permit is given back whether one was held or not
Released_unheld(c) == IF call[c].pc = "idle" THEN 0 ELSE 1

\* permits given back when a bound permit goes out of scope
Released(c) == IF call[c].permit THEN 1 ELSE 0

\* the environment may still fail a transform
FaultAllowed == Cardinality(faults) < MaxFaults

\* if file_exists(&save_path).await { Ok(false) } else { ... }
Check(c) ==
    /\ call[c].pc = "check"
    /\ IF file_exists(files, PathOf(c))
       THEN call' = [Return(c, "Ok(false)", files[PathOf(c)]) EXCEPT
                        ![c].atCheck = files[PathOf(c)]]
       ELSE call' = [call EXCEPT
                        ![c].pc = IF call[c].origin = "precache" THEN "spawned" ELSE "acquire",
                        ![c].atCheck = files[PathOf(c)]]
    /\ UNCHANGED <<single, parallelism, permits, files, cache, started, precache, faults>>

\* acquire_ready with a slip: a permit is handed out only while another is left
acquire_ready_keeps_one(available) == available > 1

\* Semaphore::acquire completes when a permit is available
acquire_ready(available) == available > 0

\* self.semaphore.acquire().await, then spawn_blocking
Acquire(c) ==
    /\ call[c].pc = "acquire"
    /\ acquire_ready(permits)
    /\ permits' = IF permit_bound THEN permits - 1 ELSE permits
    /\ call' = [call EXCEPT ![c].pc = "spawned", ![c].permit = permit_bound]
    /\ UNCHANGED <<single, parallelism, files, cache, started, precache, faults>>

\* create_optimized_image up to the write: image::open, resize, the encoder
\* (unwrap: a panic), create_nested_if_needed
TransformCompute(c) ==
    /\ call[c].pc = "spawned"
    /\ \E outcome \in {"ok"} \cup (IF FaultAllowed THEN {"ImageError", "panic", "IOError"} ELSE {}) :
        IF outcome = "ok"
        THEN /\ call' = [call EXCEPT ![c].pc = "open"]
             /\ UNCHANGED <<permits, faults>>
        ELSE /\ call' = Return(c, create_image_result(outcome), files[PathOf(c)])
             /\ permits' = permits + Released(c)
             /\ faults' = faults \cup {c}
    /\ UNCHANGED <<single, parallelism, files, cache, started, precache>>

\* std::fs::write, first half: File::create creates or truncates the file
WriteOpen(c) ==
    /\ call[c].pc = "open"
    /\ \E outcome \in {"ok"} \cup (IF FaultAllowed THEN {"IOError"} ELSE {}) :
        IF outcome = "ok"
        THEN /\ files' = [files EXCEPT ![PathOf(c)] = "empty"]
             /\ call' = [call EXCEPT ![c].pc = "write"]
             /\ UNCHANGED <<permits, faults>>
        ELSE /\ call' = Return(c, create_image_result(outcome), files[PathOf(c)])
             /\ permits' = permits + Released(c)
             /\ faults' = faults \cup {c}
             /\ UNCHANGED files
    /\ UNCHANGED <<single, parallelism, cache, started, precache>>

\* what a write_all that fails leaves: nothing more, or a prefix of the same
\* bytes (a complete file written meanwhile by another task stays complete)
AfterFailedWrite(content) ==
    IF content = "complete" THEN {"complete"} ELSE {content, "partial"}

\* std::fs::write, second half: write_all of the artifact
WriteAll(c) ==
    /\ call[c].pc = "write"
    /\ \/ /\ files' = [files EXCEPT ![PathOf(c)] = "complete"]
          /\ call' = Return(c, create_image_result("ok"), "complete")
          /\ UNCHANGED faults
       \/ \E left \in AfterFailedWrite(files[PathOf(c)]) :
          /\ FaultAllowed
          /\ files' = [files EXCEPT ![PathOf(c)] = left]
          /\ call' = Return(c, create_image_result("IOError"), left)
          /\ faults' = faults \cup {c}
    /\ permits' = permits + Released(c)
    /\ UNCHANGED <<single, parallelism, cache, started, precache>>

\* ---------------------------------------------------------------- memory cache
\* add_image_cache as the handler and cache_app_images call it, with
\* (image, text) pairs: each pair is inserted unless its image has an entry
RECURSIVE add_image_cache_pairs(_, _)
add_image_cache_pairs(m, pairs) ==
    IF pairs = << >> THEN m
    ELSE LET img == Head(pairs)[1]
             text == Head(pairs)[2]
         IN add_image_cache_pairs(IF img \in DOMAIN m THEN m ELSE (img :> text) @@ m,
                                  Tail(pairs))

\* tokio::fs::read_to_string(path).await.ok() / std::fs::read_to_string(path).ok()
readable(files_, path) == files_[path] # "absent"

\* ---------------------------------------------------------------- handler
\* ServeDir::new(root).oneshot(req): the file, or not found
serve_dir_status(files_, path) == IF files_[path] # "absent" THEN 200 ELSE 404

\* image_cache_handler up to create_image's existence check: decode the URI;
\* a URI that does not decode is answered at once
HandlerRequest(url) ==
    LET d == from_url_encoded(url)
        c == started + 1
    IN /\ started < limit
       /\ started' = c
       /\ call' = [call EXCEPT ![c] =
                     IF d.ok
                     THEN [IdleCall EXCEPT !.pc = "check", !.origin = "handler", !.url = url,
                                           !.img = d.val, !.before = Returned]
                     ELSE [IdleCall EXCEPT !.pc = "done", !.origin = "handler", !.url = url,
                                           !.status = image_cache_handler_status("Ok(None)", 0)]]
       /\ UNCHANGED <<single, parallelism, permits, files, cache, precache, faults>>

\* add_file_to_cache: read the SVG file and hand (image, text) to add_image_cache
AddFileToCache(c) ==
    /\ call[c].pc = "addcache"
    /\ cache' = IF readable(files, PathOf(c))
                THEN add_image_cache_pairs(cache, << <<call[c].img, files[PathOf(c)]>> >>)
                ELSE cache
    /\ call' = [call EXCEPT ![c].pc = "serve"]
    /\ UNCHANGED <<single, parallelism, permits, files, started, precache, faults>>

\* execute_file_handler, then the cache-control header
ServeFile(c) ==
    /\ call[c].pc = "serve"
    /\ call' = [call EXCEPT
                  ![c].pc = "done",
                  ![c].status = image_cache_handler_status("Ok(Some)",
                                    serve_dir_status(files, PathOf(c)))]
    /\ UNCHANGED <<single, parallelism, permits, files, cache, started, precache, faults>>

\* ---------------------------------------------------------------- precache
Batches == UNION { [1..n -> CachedImage] : n \in 1..MaxBatch }

\* cache_app_images: filter_map keeps CachedImageOption::Blur only
cache_app_images_takes(img) == img.option.variant = "Blur"

\* the (image, svg) pairs of the Blur images whose file can be read
RECURSIVE image_data(_, _)
image_data(images, files_) ==
    IF images = << >> THEN << >>
    ELSE LET img == Head(images)
             path == service_get_file_path(img)
         IN (IF cache_app_images_takes(img) /\ readable(files_, path)
             THEN << <<img, files_[path]>> >> ELSE << >>)
            \o image_data(Tail(images), files_)

\* first_error with a slip: the last error in the order of the images
RECURSIVE first_error_last(_)
first_error_last(results) ==
    IF results = << >> THEN "Ok"
    ELSE IF first_error_last(Tail(results)) # "Ok" THEN first_error_last(Tail(results))
    ELSE IF IsErr(Head(results)) THEN Head(results)
    ELSE "Ok"

\* collect::<Result<Vec<_>, _>>(): the first error in the order of the images
RECURSIVE first_error(_)
first_error(results) ==
    IF results = << >> THEN "Ok"
    ELSE IF IsErr(Head(results)) THEN Head(results)
    ELSE first_error(Tail(results))

\* cache_app_images: tokio::spawn of create_image for every image found
PrecacheStart(images) ==
    LET n == Len(images)
        ids == [i \in 1..n |-> started + i]
    IN /\ precache.pc = "idle"
       /\ started + n <= limit
       /\ started' = started + n
       /\ call' = [c \in Calls |->
                     IF c > started /\ c <= started + n
                     THEN [IdleCall EXCEPT !.pc = "check", !.origin = "precache",
                                           !.img = images[c - started], !.before = Returned]
                     ELSE call[c]]
       /\ precache' = [pc |-> "waiting", images |-> images, tasks |-> ids, result |-> "none"]
       /\ UNCHANGED <<single, parallelism, permits, files, cache, faults>>

\* join_all(...).await, result?, then the SVG files into the memory cache
PrecacheJoin ==
    /\ precache.pc = "waiting"
    /\ \A i \in 1..Len(precache.tasks) : call[precache.tasks[i]].pc = "returned"
    /\ LET result == first_error([i \in 1..Len(precache.tasks) |-> call[precache.tasks[i]].res])
       IN /\ precache' = [precache EXCEPT !.pc = "done", !.result = result]
          /\ cache' = IF result = "Ok"
                      THEN add_image_cache_pairs(cache, image_data(precache.images, files))
                      ELSE cache
    /\ UNCHANGED <<single, parallelism, permits, files, call, started, faults>>

\* ---------------------------------------------------------------- add_image_cache
\* provider::add_image_cache: filter on Blur
add_image_cache_takes(img) == img.option.variant = "Blur"

AfterImage(todo) == IF todo = << >> THEN "done" ELSE "acfilter"

AddImageCacheStart(images) ==
    LET c == started + 1
    IN /\ started < limit
       /\ started' = c
       /\ call' = [call EXCEPT ![c] =
                     [IdleCall EXCEPT !.pc = "acfilter", !.origin = "add_image_cache",
                                      !.todo = images]]
       /\ UNCHANGED <<single, parallelism, permits, files, cache, precache, faults>>

\* the two lazy filters on the next image: Blur, and no entry in the cache
AddImageCacheFilter(c) ==
    /\ call[c].pc = "acfilter"
    /\ LET img == Head(call[c].todo)
           rest == Tail(call[c].todo)
       IN call' = IF add_image_cache_takes(img) /\ img \notin DOMAIN cache
                  THEN [call EXCEPT ![c].pc = "acread", ![c].img = img, ![c].todo = rest]
                  ELSE [call EXCEPT ![c].pc = AfterImage(rest), ![c].todo = rest]
    /\ UNCHANGED <<single, parallelism, permits, files, cache, started, precache, faults>>

\* cache_insert with a slip: an entry found under the key is taken out
cache_insert_evicting(m, img, data) ==
    IF img \in DOMAIN m THEN [k \in DOMAIN m \ {img} |-> m[k]]
    ELSE (img :> data) @@ m

\* optimizer.cache.insert(image, data): DashMap::insert sets the key's value
cache_insert(m, img, data) == (img :> data) @@ m

\* read_to_string(path).await, then optimizer.cache.insert(image, data)
AddImageCacheRead(c) ==
    /\ call[c].pc = "acread"
    /\ cache' = IF readable(files, PathOf(c))
                THEN cache_insert(cache, call[c].img, files[PathOf(c)])
                ELSE cache
    /\ call' = [call EXCEPT ![c].pc = AfterImage(call[c].todo)]
    /\ UNCHANGED <<single, parallelism, permits, files, started, precache, faults>>

\* ---------------------------------------------------------------- specification
Next ==
    \/ \E url \in Urls : HandlerRequest(url)
    \/ \E c \in Calls : Check(c)
    \/ \E c \in Calls : Acquire(c)
    \/ \E c \in Calls : TransformCompute(c)
    \/ \E c \in Calls : WriteOpen(c)
    \/ \E c \in Calls : WriteAll(c)
    \/ \E c \in Calls : AddFileToCache(c)
    \/ \E c \in Calls : ServeFile(c)
    \/ \E images \in Batches : PrecacheStart(images)
    \/ PrecacheJoin
    \/ \E img \in CachedImage : AddImageCacheStart(<<img>>)
    \/ \E c \in Calls : AddImageCacheFilter(c)
    \/ \E c \in Calls : AddImageCacheRead(c)

Spec == Init /\ [][Next]_vars

\* the scheduler polls every create_image that can go on, the semaphore wakes
\* its waiters, and the blocking pool runs every closure handed to it
FairSpec ==
    /\ Spec
    /\ \A c \in Calls :
         /\ WF_vars(Check(c)) /\ WF_vars(Acquire(c))
         /\ WF_vars(TransformCompute(c)) /\ WF_vars(WriteOpen(c)) /\ WF_vars(WriteAll(c))

\* ---------------------------------------------------------------- one key, three tasks
\* the Blur request of cat.png and its request URI
BlurImage == [src |-> "cat.png", option |-> BlurOption]
BlurUrl == get_url_encoded(BlurImage, HandlerPath)

\* ImageOptimizer::new, followed by one task more than in Spec
RaceInit ==
    /\ codec = CodecIdle /\ discovery = DiscoveryIdle /\ transform = TransformIdle
    /\ limit = MaxCalls + 1
    /\ parallelism \in 1..MaxParallelism
    /\ permits = parallelism
    /\ files = [p \in Paths |-> "absent"]
    /\ cache = << >>
    /\ call = [c \in Calls |-> IdleCall]
    /\ started = 0
    /\ precache = [pc |-> "idle", images |-> << >>, tasks |-> << >>, result |-> "none"]
    /\ faults = {}

\* handler requests, add_image_cache calls and a precache job, all for the one
\* Blur request
RaceNext ==
    \/ HandlerRequest(BlurUrl)
    \/ \E c \in Calls : Check(c)
    \/ \E c \in Calls : Acquire(c)
    \/ \E c \in Calls : TransformCompute(c)
    \/ \E c \in Calls : WriteOpen(c)
    \/ \E c \in Calls : WriteAll(c)
    \/ \E c \in Calls : AddFileToCache(c)
    \/ \E c \in Calls : ServeFile(c)
    \/ AddImageCacheStart(<<BlurImage>>)
    \/ \E c \in Calls : AddImageCacheFilter(c)
    \/ \E c \in Calls : AddImageCacheRead(c)
    \/ PrecacheStart(<<BlurImage>>)
    \/ PrecacheJoin

RaceSpec == RaceInit /\ [][RaceNext]_vars

\* ---------------------------------------------------------------- abandoned requests
\* drop_caller with a slip: dropping the caller stops the blocking task too
drop_caller_aborts(pc) == "dropped"

\* what is left of a handler task at pc when its future is dropped: a closure
\* handed to spawn_blocking runs on, for dropping its JoinHandle detaches it;
\* a future waiting anywhere else is gone
drop_caller(pc) == IF pc \in {"spawned", "open", "write"} THEN pc ELSE "dropped"

\* the request is abandoned: the handler's future is dropped at an await
Abandon(c) ==
    /\ call[c].origin = "handler"
    /\ call[c].pc \in {"check", "acquire", "spawned", "open", "write", "addcache", "serve"}
    /\ call' = [call EXCEPT ![c].pc = drop_caller(call[c].pc), ![c].origin = "detached"]
    /\ UNCHANGED <<single, parallelism, permits, files, cache, started, precache, faults>>

\* the steps of Spec, and requests abandoned at any await
AbandonNext ==
    \/ Next
    \/ \E c \in Calls : Abandon(c)

\* the blocking pool runs every closure handed to it, one step after the other
AbandonSpec ==
    /\ Init /\ [][AbandonNext]_vars
    /\ \A c \in Calls :
         WF_vars(TransformCompute(c)) /\ WF_vars(WriteOpen(c)) /\ WF_vars(WriteAll(c))

\* ---------------------------------------------------------------- actix entry point
\* convert_response: the body is collected, the headers are copied onto
\* HttpResponse::Ok(), and parts.status is never read; a body that cannot be
\* collected is answered with InternalServerError
convert_response_status(status, body_read) == IF body_read THEN 200 ELSE 500

\* ImageOptimizer::new; codec holds the status actix_handler returned for each request,
\* 0 while it has returned none
ActixInit ==
    /\ codec = [c \in Calls |-> 0]
    /\ discovery = DiscoveryIdle /\ transform = TransformIdle
    /\ limit = MaxCalls
    /\ parallelism \in 1..MaxParallelism
    /\ permits = parallelism
    /\ files = [p \in Paths |-> "absent"]
    /\ cache = << >>
    /\ call = [c \in Calls |-> IdleCall]
    /\ started = 0
    /\ precache = [pc |-> "idle", images |-> << >>, tasks |-> << >>, result |-> "none"]
    /\ faults = {}

\* actix_handler after image_cache_handler has answered: convert_response, then
\* expect. Only a streamed file body can fail to be collected.
ActixRespond(c, body_read) ==
    /\ call[c].origin = "handler" /\ call[c].pc = "done"
    /\ codec[c] = 0
    /\ body_read \/ (IsOk(call[c].res) /\ call[c].status = 200)
    /\ codec' = [codec EXCEPT ![c] = convert_response_status(call[c].status, body_read)]
    /\ UNCHANGED <<discovery, transform, limit, parallelism, permits, files, cache,
                   call, started, precache, faults>>

\* every request comes in through actix_handler, which builds the axum request
\* and awaits image_cache_handler
ActixNext ==
    \/ \E url \in Urls : HandlerRequest(url)
    \/ \E c \in Calls : Check(c)
    \/ \E c \in Calls : Acquire(c)
    \/ \E c \in Calls : TransformCompute(c)
    \/ \E c \in Calls : WriteOpen(c)
    \/ \E c \in Calls : WriteAll(c)
    \/ \E c \in Calls : AddFileToCache(c)
    \/ \E c \in Calls : ServeFile(c)
    \/ \E c \in Calls, body_read \in BOOLEAN : ActixRespond(c, body_read)

ActixSpec == ActixInit /\ [][ActixNext]_vars

\* ---------------------------------------------------------------- codec
\* sources: a plain name, directories, no extension, a leading dot, a dot in
\* a directory name, reserved characters, a two-byte character, two
\* extensions, outer slashes, a directory whose name is base64 text, and a
\* directory whose name is the encoded key of another request
Cat == Bytes(<<"c", "a", "t", ".", "p", "n", "g">>)
NestedKey ==
    base64_encode(to_string_text([src |-> Cat,
        option |-> [variant |-> "Resize", width |-> 100, height |-> 100, quality |-> 75]]))
CodecSrcs ==
    { Cat,
      Bytes(<<"a", "/", "c", "a", "t", ".", "p", "n", "g">>),
      Bytes(<<"c", "a", "t">>),
      Bytes(<<".", "c", "a", "t">>),
      Bytes(<<"a", ".", "b", "/", "c", "a", "t">>),
      Bytes(<<"c", " ", "t", "?", "&", "=", "+", "%", ".", "p", "n", "g">>),
      <<195, 169>> \o Bytes(<<".", "p", "n", "g">>),
      Bytes(<<"c", "a", "t", ".", "t", "a", "r", ".", "g", "z">>),
      Bytes(<<"/", "a", "/", "c", "a", "t", ".", "p", "n", "g">>),
      Bytes(<<"a", "b", "c", "d", "/", "c", "a", "t", ".", "p", "n", "g">>),
      NestedKey \o Bytes(<<"/", "x", ".", "p", "n", "g">>) }

CodecOptions ==
    { [variant |-> "Resize", width |-> 100, height |-> 100, quality |-> 75],
      [variant |-> "Resize", width |-> 0, height |-> 0, quality |-> 0],
      [variant |-> "Resize", width |-> 2147483647, height |-> 1, quality |-> 255],
      [variant |-> "Blur", width |-> 20, height |-> 20,
       svg_width |-> 100, svg_height |-> 100, sigma |-> 15],
      [variant |-> "Blur", width |-> 1, height |-> 0,
       svg_width |-> 2147483647, svg_height |-> 3, sigma |-> 255] }

CodecImages == [src : CodecSrcs, option : CodecOptions]

\* handler paths: the example's route, none, and one with a '?' of its own
HandlerPaths ==
    { Bytes(<<"/", "c", "a", "c", "h", "e", "/", "i", "m", "a", "g", "e">>),
      << >>,
      Bytes(<<"/", "x", "?", "y">>) }

\* the store untouched, as ImageOptimizer::new leaves it
StoreIdle ==
    /\ limit = MaxCalls
    /\ parallelism = 1
    /\ permits = 1
    /\ files = [p \in Paths |-> "absent"]
    /\ cache = << >>
    /\ call = [c \in Calls |-> IdleCall]
    /\ started = 0
    /\ precache = [pc |-> "idle", images |-> << >>, tasks |-> << >>, result |-> "none"]
    /\ faults = {}

store == <<parallelism, permits, files, cache, call, started, precache, faults, limit>>

CodecInit ==
    /\ StoreIdle
    /\ discovery = DiscoveryIdle /\ transform = TransformIdle
    /\ codec \in [pc : {"new"}, img : CodecImages, handler_path : HandlerPaths,
                  url : {<< >>}, decoded : {TextDecodeErr},
                  path : {<< >>}, found : {TextDecodeErr}]

\* img.get_url_encoded(handler_path)
UrlEncode ==
    /\ codec.pc = "new"
    /\ codec' = [codec EXCEPT !.pc = "url",
                              !.url = get_url_encoded_text(codec.img, codec.handler_path)]
    /\ UNCHANGED <<store, discovery, transform>>

\* CachedImage::from_url_encoded(&encoded)
UrlDecode ==
    /\ codec.pc = "url"
    /\ codec' = [codec EXCEPT !.pc = "decoded", !.decoded = from_url_encoded_text(codec.url)]
    /\ UNCHANGED <<store, discovery, transform>>

\* img.get_file_path()
FilePath ==
    /\ codec.pc = "decoded"
    /\ codec' = [codec EXCEPT !.pc = "path", !.path = get_file_path_text(codec.img)]
    /\ UNCHANGED <<store, discovery, transform>>

\* CachedImage::from_file_path(&file_path)
FromFilePath ==
    /\ codec.pc = "path"
    /\ codec' = [codec EXCEPT !.pc = "done", !.found = from_file_path(codec.path)]
    /\ UNCHANGED <<store, discovery, transform>>

CodecNext == UrlEncode \/ UrlDecode \/ FilePath \/ FromFilePath

CodecSpec == CodecInit /\ [][CodecNext]_vars

\* C13: for every CachedImage and handler path, from_url_encoded of
\* get_url_encoded returns Ok of the same CachedImage.
C13_WireRoundTrip ==
    codec.pc \in {"decoded", "path", "done"}
    => codec.decoded.ok /\ codec.decoded.val = codec.img

\* a Blur request whose source has '?', '&', '=' and a space, under a handler
\* path with a '?', has been encoded and decoded
C13_Witness ==
    /\ codec.pc = "decoded"
    /\ codec.decoded.ok
    /\ codec.img.option.variant = "Blur"
    /\ {32, 38, 61, 63} \subseteq { codec.img.src[i] : i \in 1..Len(codec.img.src) }
    /\ 63 \in { codec.handler_path[i] : i \in 1..Len(codec.handler_path) }

\* C14: for every CachedImage, sources with directories included,
\* from_file_path of get_file_path returns Some of the same CachedImage.
C14_PathRoundTrip ==
    codec.pc = "done" => codec.found.ok /\ codec.found.val = codec.img

\* the path of a source inside a directory named like an encoded key has been
\* decoded
C14_Witness ==
    /\ codec.pc = "done"
    /\ codec.found.ok
    /\ Len(codec.img.src) > Len(NestedKey)
    /\ SubSeq(codec.img.src, 1, Len(NestedKey)) = NestedKey

\* C15 as claimed: the derived path is cache/image/<base64 key>/<source> with
\* '.' and the artifact extension added after the full source name.
C15_ExtensionAppended ==
    codec.pc \in {"path", "done"}
    => codec.path = join(<<CacheImageDir, base64_encode(to_string_text(codec.img)),
                           trim_slashes(codec.img.src) \o <<46>> \o ExtensionText(codec.img)>>, 47)

\* C15 as amended: the derived path is cache/image/<base64 key>/<source> with
\* the extension of the source's file name replaced by the artifact extension
\* (added when the name has none): cat.png is stored as cat.webp or cat.svg.
C15_ExtensionReplaces ==
    codec.pc \in {"path", "done"}
    => LET segs == split(codec.path, 47)
           from == split(trim_slashes(codec.img.src), 47)
           name == from[Len(from)]
           dots == { i \in 2..Len(name) : name[i] = 46 }
           base == IF dots = {} THEN name
                   ELSE SubSeq(name, 1, (CHOOSE i \in dots : \A j \in dots : i >= j) - 1)
       IN /\ Len(segs) = 3 + Len(from)
          /\ join(SubSeq(segs, 1, 2), 47) = CacheImageDir
          /\ segs[3] = base64_encode(to_string_text(codec.img))
          /\ \A i \in 1..(Len(from) - 1) : segs[3 + i] = from[i]
          /\ segs[Len(segs)] = base \o <<46>> \o ExtensionText(codec.img)
          /\ codec.img.src = Cat
             => segs[Len(segs)] \in { Bytes(<<"c", "a", "t", ".", "w", "e", "b", "p">>),
                                      Bytes(<<"c", "a", "t", ".", "s", "v", "g">>) }

\* the path of a Resize of cat.png has been derived
C15_Witness ==
    /\ codec.pc = "path"
    /\ codec.img.src = Cat
    /\ codec.img.option.variant = "Resize"
    /\ codec.path # << >>


\* ---------------------------------------------------------------- one create_image
\* sources whose encoded key is longer than a file name may be, and whose own
\* directory name is
LongName == [i \in 1..200 |-> 97] \o Bytes(<<".", "p", "n", "g">>)
LongDir == [i \in 1..300 |-> 97] \o Bytes(<<"/", "c", "a", "t", ".", "p", "n", "g">>)

\* sources that climb out of their directory, start at '/', or are empty
UpOne == Bytes(<<".", ".", "/", "c", "a", "t", ".", "p", "n", "g">>)
UpThree == Bytes(<<".", ".", "/", ".", ".", "/", ".", ".", "/", "c", "a", "t", ".", "p", "n", "g">>)
FromSlash == Bytes(<<"/", "a", "/", "c", "a", "t", ".", "p", "n", "g">>)
NoSource == << >>

TransformImages ==
    [src : {Cat, LongName, LongDir, UpOne, UpThree, FromSlash, NoSource},
     option : { [variant |-> "Resize", width |-> 100, height |-> 100, quality |-> 75],
                [variant |-> "Resize", width |-> 0, height |-> 100, quality |-> 75],
                [variant |-> "Resize", width |-> 100, height |-> 0, quality |-> 75],
                [variant |-> "Resize", width |-> 0, height |-> 0, quality |-> 75],
                [variant |-> "Resize", width |-> 3, height |-> 1, quality |-> 75],
                [variant |-> "Blur", width |-> 20, height |-> 20,
                 svg_width |-> 100, svg_height |-> 100, sigma |-> 15],
                [variant |-> "Blur", width |-> 0, height |-> 0,
                 svg_width |-> 100, svg_height |-> 100, sigma |-> 15] }]

\* the file at root/src: missing, or an image of some size and pixel layout
SourceFiles ==
    { [exists |-> FALSE, width |-> 0, height |-> 0, layout |-> "none"],
      [exists |-> TRUE, width |-> 4, height |-> 2, layout |-> "rgb8"],
      [exists |-> TRUE, width |-> 1, height |-> 1, layout |-> "rgba8"],
      [exists |-> TRUE, width |-> 3, height |-> 3, layout |-> "luma8"] }

\* the filesystem takes the path: none of its names is longer than NameMax
names_fit(path) ==
    \A i \in 1..Len(split(path, 47)) : Len(split(path, 47)[i]) <= NameMax

\* Path::parent: the path without its last name
parent(path) ==
    LET segs == split(path, 47) IN join(SubSeq(segs, 1, Len(segs) - 1), 47)

Max(a, b) == IF a >= b THEN a ELSE b

\* x / y rounded to the nearest integer, halves away from zero (f64::round)
RoundDiv(x, y) == (2 * x + y) \div (2 * y)

\* image::DynamicImage::resize -> resize_dimensions(width, height, nwidth,
\* nheight, false): the largest size of the same aspect ratio inside
\* nwidth x nheight, each side at least 1
resize_dimensions(width, height, nwidth, nheight) ==
    IF nwidth * height <= nheight * width
    THEN [width |-> Max(RoundDiv(width * nwidth, width), 1),
          height |-> Max(RoundDiv(height * nwidth, width), 1)]
    ELSE [width |-> Max(RoundDiv(width * nheight, height), 1),
          height |-> Max(RoundDiv(height * nheight, height), 1)]

\* webp::Encoder::from_image: Ok for 8-bit RGB and RGBA images only
encoder_takes(layout) == layout \in {"rgb8", "rgba8"}

\* self.get_file_path(&cache_image): a String, whatever its length
relative_path_created(img) == get_file_path_text(img)

\* self.root_file_path
Root == Bytes(<<"s", "i", "t", "e">>)

\* path_from_segments(vec![root, &relative_path_created])
save_path(img) == path_from_segments(<<Root, relative_path_created(img)>>)

\* path_from_segments(vec![root, &cache_image.src])
absolute_src_path(img) == path_from_segments(<<Root, img.src>>)

\* the file a path names when the filesystem walks it: "." stays, ".." goes
\* to the parent (no symbolic links under the root)
RECURSIVE walk(_, _)
walk(at, names) ==
    IF names = << >> THEN at
    ELSE LET name == Head(names)
             next == IF name = << >> \/ name = <<46>> THEN at
                     ELSE IF name = <<46, 46>> /\ at # << >> /\ at[Len(at)] # <<46, 46>>
                          THEN SubSeq(at, 1, Len(at) - 1)
                     ELSE Append(at, name)
         IN walk(next, Tail(names))

resolved(path) == walk(<< >>, split(path, 47))

TransformInit ==
    /\ StoreIdle
    /\ codec = CodecIdle /\ discovery = DiscoveryIdle
    /\ transform \in [pc : {"new"}, img : TransformImages, source : SourceFiles,
                      path : {[ok |-> FALSE, val |-> << >>]},
                      size : {[width |-> 0, height |-> 0]},
                      res : {"none"}, file : {"absent"}]

\* create_image: the save path from get_file_path
DerivePath ==
    /\ transform.pc = "new"
    /\ transform' = [transform EXCEPT
                       !.pc = "check",
                       !.path = [ok |-> TRUE, val |-> relative_path_created(transform.img)]]
    /\ UNCHANGED <<store, codec, discovery>>

\* file_exists(&save_path) on a root without the artifact, acquire, spawn_blocking
ExistsCheck ==
    /\ transform.pc = "check"
    /\ transform' = [transform EXCEPT
                       !.pc = IF transform.file # "absent" THEN "done" ELSE "open",
                       !.res = IF transform.file # "absent" THEN "Ok(false)" ELSE "none"]
    /\ UNCHANGED <<store, codec, discovery>>

\* image::open(source_path)?: no file, or a name the filesystem does not take
OpenSource ==
    /\ transform.pc = "open"
    /\ transform' =
         IF transform.source.exists /\ names_fit(transform.img.src)
         THEN [transform EXCEPT !.pc = "resize"]
         ELSE [transform EXCEPT !.pc = "done", !.res = create_image_result("ImageError")]
    /\ UNCHANGED <<store, codec, discovery>>

\* img.resize(width, height, filter)
ResizeSource ==
    /\ transform.pc = "resize"
    /\ transform' = [transform EXCEPT
                       !.pc = "encode",
                       !.size = resize_dimensions(transform.source.width,
                                                  transform.source.height,
                                                  transform.img.option.width,
                                                  transform.img.option.height)]
    /\ UNCHANGED <<store, codec, discovery>>

\* Encoder::from_image(&img).unwrap(), encoder.encode(quality)
Encode ==
    /\ transform.pc = "encode"
    /\ transform' =
         IF encoder_takes(transform.source.layout)
         THEN [transform EXCEPT !.pc = "mkdir"]
         ELSE [transform EXCEPT !.pc = "done", !.res = create_image_result("panic")]
    /\ UNCHANGED <<store, codec, discovery>>

\* create_nested_if_needed(&save_path)?: create_dir_all of the parent
CreateNested ==
    /\ transform.pc = "mkdir"
    /\ transform' =
         IF names_fit(parent(transform.path.val))
         THEN [transform EXCEPT !.pc = "write"]
         ELSE [transform EXCEPT !.pc = "done", !.res = create_image_result("IOError")]
    /\ UNCHANGED <<store, codec, discovery>>

\* std::fs::write(save_path, ..)?: File::create, then write_all, which may fail
WriteFile ==
    /\ transform.pc = "write"
    /\ IF names_fit(transform.path.val)
       THEN \/ transform' = [transform EXCEPT !.pc = "done", !.file = "complete",
                                              !.res = create_image_result("ok")]
            \/ \E left \in {"empty", "partial"} :
                 transform' = [transform EXCEPT !.pc = "done", !.file = left,
                                                !.res = create_image_result("IOError")]
       ELSE transform' = [transform EXCEPT !.pc = "done",
                                           !.res = create_image_result("IOError")]
    /\ UNCHANGED <<store, codec, discovery>>

TransformNext ==
    \/ DerivePath
    \/ ExistsCheck
    \/ OpenSource
    \/ ResizeSource
    \/ Encode
    \/ CreateNested
    \/ WriteFile

TransformSpec == TransformInit /\ [][TransformNext]_vars

\* the encoded key or a name of the source is longer than a file name may be
TooLong(img) ==
    \/ Len(base64_encode(to_string_text(img))) > NameMax
    \/ ~ names_fit(img.src)

\* C16 as claimed: when the encoded key or a source name is longer than 255
\* bytes, computing the path fails, and no artifact is written.
C16_PathTooLongFails ==
    (transform.pc # "new" /\ TooLong(transform.img))
    => ~ transform.path.ok /\ transform.file = "absent"

\* C16 as amended: when the encoded key or a source name is longer than 255
\* bytes, get_file_path still returns the whole path, uncut; create_image
\* returns an error, the filesystem's I/O error unless opening or encoding the
\* source failed first, and no artifact is written.
C16_TooLongIsIoError ==
    (transform.pc # "new" /\ TooLong(transform.img))
    => /\ transform.path.ok
       /\ from_file_path(transform.path.val).ok
       /\ from_file_path(transform.path.val).val = transform.img
       /\ transform.file = "absent"
       /\ transform.pc = "done"
          => /\ IsErr(transform.res)
             /\ (transform.source.exists /\ encoder_takes(transform.source.layout)
                 /\ names_fit(transform.img.src))
                => transform.res = "IOError"

\* create_image of a request whose key is too long, on a source it can read,
\* has returned the I/O error of create_dir_all
C16_Witness ==
    /\ transform.pc = "done"
    /\ transform.img.src = LongName
    /\ Len(base64_encode(to_string_text(transform.img))) > NameMax
    /\ names_fit(transform.img.src)
    /\ transform.res = "IOError"
    /\ transform.size.width >= 1

\* C20: a Resize request with width = 0 or height = 0, on a source that can be
\* read and encoded, fails cleanly: create_image returns an error that is not
\* a panic, and no file is left at the derived path.
C20_ZeroSizeFails ==
    (/\ transform.pc = "done"
     /\ transform.source.exists /\ encoder_takes(transform.source.layout)
     /\ transform.img.option.variant = "Resize"
     /\ transform.img.option.width = 0 \/ transform.img.option.height = 0)
    => /\ transform.res \in {"ImageError", "IOError"}
       /\ transform.file = "absent"


\* ---------------------------------------------------------------- two requests
\* sources for a pair of requests: plain, another extension, in a directory,
\* climbing out of the key's directory, empty
PairSrcs ==
    { Cat,
      Bytes(<<"c", "a", "t", ".", "j", "p", "g">>),
      Bytes(<<"a", "/", "c", "a", "t", ".", "p", "n", "g">>),
      UpOne,
      Bytes(<<"a", "/", ".", ".", "/", "c", "a", "t", ".", "p", "n", "g">>),
      NoSource }

PairOptions ==
    { [variant |-> "Resize", width |-> 100, height |-> 100, quality |-> 75],
      [variant |-> "Resize", width |-> 100, height |-> 100, quality |-> 0],
      [variant |-> "Blur", width |-> 20, height |-> 20,
       svg_width |-> 100, svg_height |-> 100, sigma |-> 15] }

PairImages == [src : PairSrcs, option : PairOptions]

PairInit ==
    /\ StoreIdle
    /\ discovery = DiscoveryIdle /\ transform = TransformIdle
    /\ codec \in [pc : {"two"}, first : PairImages, second : PairImages,
                  first_path : {<< >>}, second_path : {<< >>}]

\* first.get_file_path()
FirstPath ==
    /\ codec.pc = "two"
    /\ codec' = [codec EXCEPT !.pc = "one", !.first_path = get_file_path_text(codec.first)]
    /\ UNCHANGED <<store, discovery, transform>>

\* second.get_file_path()
SecondPath ==
    /\ codec.pc = "one"
    /\ codec' = [codec EXCEPT !.pc = "done", !.second_path = get_file_path_text(codec.second)]
    /\ UNCHANGED <<store, discovery, transform>>

PairNext == FirstPath \/ SecondPath

PairSpec == PairInit /\ [][PairNext]_vars

\* C32: distinct requests never share an artifact: the paths of two
\* different requests name different files.
C32_DistinctArtifacts ==
    (codec.pc = "done" /\ codec.first # codec.second)
    => resolved(codec.first_path) # resolved(codec.second_path)

\* ---------------------------------------------------------------- discovery
\* longest list of paths handed to find_app_images_from_paths
MaxRoutes == 2

Routes == {"/", "/gallery"}

\* an <Image/> of the page: its source and whether it asks for a blur
ImageA == [src |-> "a.png", blur |-> FALSE]
ImageB == [src |-> "b.png", blur |-> FALSE]
ImageC == [src |-> "c.png", blur |-> TRUE]

\* what a route renders: nothing, one image, one with blur, the same image
\* twice, three different images
Pages == { << >>, <<ImageA>>, <<ImageC>>, <<ImageA, ImageA>>, <<ImageA, ImageB, ImageC>> }

Apps == [Routes -> Pages]

PathLists == UNION { [1..n -> Routes] : n \in 1..MaxRoutes }

\* Image: images.push(opt_image), and images.push(blur_image) if blur
image_pushes(component) ==
    <<[src |-> component.src, option |-> ResizeOption]>> \o
    (IF component.blur THEN <<[src |-> component.src, option |-> BlurOption]>> ELSE << >>)

\* what the <Image/>s of a page push while the page is rendered, in page order
render_pushes(page) == Flatten([i \in 1..Len(page) |-> image_pushes(page[i])])

\* new_context with a slip: the collector of the previous render is used again
new_context_reused(previous) == previous

\* IntrospectImageContext::default(): an empty collector, whatever the previous
\* render collected
new_context(previous) == << >>

DiscoveryInit ==
    /\ StoreIdle
    /\ codec = CodecIdle /\ transform = TransformIdle
    /\ discovery \in [pc : {"render"}, app : Apps, paths : PathLists,
                      next : {1}, context : {<< >>}, images : {<< >>}]

\* the closure of the map over paths, and flatten: a new context is provided,
\* the page is rendered, and a clone of the context goes to the end of the result
RenderPath ==
    /\ discovery.pc = "render"
    /\ discovery.next <= Len(discovery.paths)
    /\ LET context == new_context(discovery.context) \o
                      render_pushes(discovery.app[discovery.paths[discovery.next]])
       IN discovery' = [discovery EXCEPT
                          !.next = discovery.next + 1,
                          !.context = context,
                          !.images = discovery.images \o context]
    /\ UNCHANGED <<store, codec, transform>>

\* collect(), runtime.dispose(), images
DiscoveryReturn ==
    /\ discovery.pc = "render"
    /\ discovery.next > Len(discovery.paths)
    /\ discovery' = [discovery EXCEPT !.pc = "done"]
    /\ UNCHANGED <<store, codec, transform>>

DiscoveryNext == RenderPath \/ DiscoveryReturn

DiscoverySpec == DiscoveryInit /\ [][DiscoveryNext]_vars

\* C17: the result of find_app_images_from_paths holds each request once:
\* no request is listed twice, whether two routes or one route emitted it.
C17_EachRequestOnce ==
    discovery.pc = "done"
    => \A i, j \in 1..Len(discovery.images) :
         discovery.images[i] = discovery.images[j] => i = j


\* ---------------------------------------------------------------- claims
\* the tasks that called create_image
Creates == { c \in Calls : call[c].origin \in {"handler", "precache"} /\ call[c].img # NoImage }

\* tasks whose blocking transform (spawn_blocking of create_optimized_image) is running
Running == { c \in Creates : call[c].pc \in {"spawned", "open", "write"} }

\* the tasks that called create_image for the file at path
CreatesOn(path) == { c \in Creates : PathOf(c) = path }

\* C1: on an ImageOptimizer built with parallelism N, at most N transforms
\* started by ImageOptimizer::create_image run at the same time.
C1_AtMostNTransforms ==
    Cardinality({ c \in Running : call[c].origin = "handler" }) <= parallelism

\* C2: a file that exists at a derived path holds the complete artifact; no
\* observer can see it empty or partially written.
C2_ExistsImpliesComplete ==
    \A img \in CachedImage :
        files[get_file_path(img)] # "absent" => files[get_file_path(img)] = "complete"

\* C3: when all create_image calls on a never-cached request have returned and
\* none of their transforms met a failure, every call returned Ok, one of them
\* created the file, and the file at the path is the complete artifact.
C3_ConcurrentSameKey ==
    \A path \in Paths :
        LET cs == CreatesOn(path) IN
        (/\ cs # {}
         /\ \A c \in cs : call[c].res # "none"
         /\ cs \cap faults = {})
        => /\ \A c \in cs : IsOk(call[c].res)
           /\ \E c \in cs : call[c].res = "Ok(true)"
           /\ files[path] = "complete"

\* two overlapping calls on the same request both created the file, and the
\* file is complete
C3_Witness ==
    \E c1, c2 \in Creates :
        /\ c1 # c2
        /\ call[c1].origin = "handler" /\ call[c2].origin = "handler"
        /\ call[c1].img = call[c2].img
        /\ call[c1].res = "Ok(true)" /\ call[c2].res = "Ok(true)"
        /\ faults = {}
        /\ files[PathOf(c1)] = "complete"

\* c2 called create_image for the request of c1 after c1 had returned, and no
\* other task ever called create_image for that request's file
Sequential(c1, c2) ==
    /\ c1 # c2
    /\ call[c1].origin = "handler" /\ call[c2].origin = "handler"
    /\ call[c1].img = call[c2].img
    /\ c1 \in call[c2].before
    /\ call[c2].res # "none"
    /\ call[c1].atCheck = "absent"
    /\ IsOk(call[c1].res)
    /\ CreatesOn(get_file_path(call[c1].img)) = {c1, c2}

\* C4: of two create_image(r) calls made one after the other on a request
\* without artifact, the first returns created = true and the second
\* created = false, for the same path, and the bytes at the path are the same
\* after the second call as after the first.
C4_Idempotent ==
    \A c1, c2 \in Creates :
        Sequential(c1, c2)
        => /\ call[c1].res = "Ok(true)"
           /\ call[c2].res = "Ok(false)"
           /\ PathOf(c1) = PathOf(c2)
           /\ call[c2].atReturn = call[c1].atReturn
           /\ call[c1].atReturn = "complete"

C4_Witness == \E c1, c2 \in Creates : Sequential(c1, c2)

\* C5: a create_image that finds the file at its path returns created = false
\* in that step, without taking a permit or starting a transform, and leaves
\* the files, the permits and the memory cache as they were.
C5_ExistingFileFrame ==
    [][\A c \in Calls :
        (call[c].pc = "check" /\ files[PathOf(c)] # "absent" /\ call'[c] # call[c])
        => /\ call'[c].res = "Ok(false)"
           /\ call'[c].pc \in {"serve", "returned"}
           /\ ~ call'[c].permit
           /\ permits' = permits
           /\ files' = files
           /\ cache' = cache]_vars

\* a handler's create_image returned created = false for a file another task wrote
C5_Witness ==
    \E c \in Creates :
        /\ call[c].origin = "handler"
        /\ call[c].res = "Ok(false)"
        /\ call[c].atCheck # "absent"

\* C6: a complete artifact at a derived path stays: no step deletes,
\* truncates or rewrites it.
C6_CompleteStays ==
    [][\A img \in CachedImage :
        files[get_file_path(img)] = "complete" => files'[get_file_path(img)] = "complete"]_vars

\* C7: a create_image that returned an error left no file at its path (it is
\* the only task that ever worked on that path, and the path was empty when it
\* looked) and holds no permit.
C7_FailureLeavesNoFile ==
    \A c \in Creates :
        (/\ call[c].origin = "handler"
         /\ IsErr(call[c].res)
         /\ call[c].atCheck = "absent"
         /\ CreatesOn(PathOf(c)) = {c})
        => /\ files[PathOf(c)] = "absent"
           /\ ~ call[c].permit
           /\ permits = parallelism

\* the request URI of a handler task decodes to a CachedImage
Decodes(url) == from_url_encoded(url).ok

\* C8: a request URI that does not decode is answered 404, create_image is
\* not called for it, and answering it changes no file, permit or cache entry.
C8_UndecodableIs404 ==
    [][\A c \in Calls :
        (call'[c].origin = "handler" /\ ~ Decodes(call'[c].url))
        => /\ call'[c].status = 404
           /\ call'[c].pc = "done"
           /\ call'[c].res = "none" /\ call'[c].atCheck = "none"
           /\ (call'[c] # call[c]
               => files' = files /\ cache' = cache /\ permits' = permits)]_vars

\* the handler answered a URI with an unknown operation tag
C8_Witness ==
    \E c \in Calls :
        /\ call[c].origin = "handler"
        /\ call[c].pc = "done"
        /\ ~ Decodes(call[c].url)
        /\ QsTags(call[c].url[Len(call[c].url)]) = {"z"}

\* C9: a request URI that decodes and whose create_image returns an error is
\* answered 500, and no step of that request adds to the memory cache.
C9_CreateErrorIs500 ==
    [][\A c \in Calls :
        (call'[c].origin = "handler" /\ Decodes(call'[c].url))
        => /\ IsErr(call'[c].res) => call'[c].status = 500 /\ call'[c].pc = "done"
           /\ (call'[c] # call[c] /\ ~ IsOk(call'[c].res)) => cache' = cache]_vars

\* a handler whose transform failed while writing has answered
C9_Witness ==
    \E c \in Calls :
        /\ call[c].origin = "handler"
        /\ call[c].res = "IOError"
        /\ call[c].pc = "done"
        /\ files[PathOf(c)] = "partial"

\* C10: every key of the memory cache is a Blur request.
C10_OnlyBlurCached ==
    \A img \in DOMAIN cache : img.option.variant = "Blur"

\* the handler created and served a Resize artifact, and precache or the
\* handler filled the cache with a Blur entry
C10_Witness ==
    /\ DOMAIN cache # {}
    /\ \E c \in Creates :
        /\ call[c].origin = "handler"
        /\ call[c].img.option.variant = "Resize"
        /\ call[c].res = "Ok(true)"
        /\ call[c].pc = "done"

\* C11: the memory cache only grows: every key it has before a step it has
\* after the step.
C11_CacheOnlyGrows == [][DOMAIN cache \subseteq DOMAIN cache']_vars

\* add_image_cache read the file and inserted for a key the handler had
\* inserted meanwhile
C11_Witness ==
    /\ DOMAIN cache # {}
    /\ \E c1, c2 \in Calls :
        /\ call[c1].origin = "add_image_cache" /\ call[c1].pc = "done"
        /\ call[c1].img \in DOMAIN cache
        /\ call[c2].origin = "handler" /\ call[c2].pc = "done"
        /\ call[c2].img = call[c1].img /\ call[c2].res = "Ok(true)"

\* C12 as claimed: once the handler has served a Blur request whose
\* create_image returned Ok, created or not, the memory cache has an entry for
\* it whose text is the content of the SVG file.
C12_ServedBlurIsCached ==
    \A c \in Calls :
        (/\ call[c].origin = "handler" /\ call[c].pc = "done"
         /\ IsOk(call[c].res)
         /\ call[c].img.option.variant = "Blur")
        => /\ call[c].img \in DOMAIN cache
           /\ cache[call[c].img] = files[PathOf(c)]

\* C12 as amended: once the handler has served a Blur request whose
\* create_image returned created = true, the memory cache has an entry for it,
\* holding what a read of the SVG file returned.
C12_CreatedBlurIsCached ==
    \A c \in Calls :
        (/\ call[c].origin = "handler" /\ call[c].pc = "done"
         /\ call[c].res = "Ok(true)"
         /\ call[c].img.option.variant = "Blur")
        => /\ call[c].img \in DOMAIN cache
           /\ cache[call[c].img] \in Content \ {"absent"}

\* the handler created and served a Blur artifact and the cache holds its text
C12_Witness ==
    \E c \in Calls :
        /\ call[c].origin = "handler" /\ call[c].pc = "done"
        /\ call[c].res = "Ok(true)"
        /\ call[c].img.option.variant = "Blur"
        /\ call[c].img \in DOMAIN cache
        /\ cache[call[c].img] = "complete"

\* tasks of the precache job inside create_image
InFlight == { c \in Creates : call[c].origin = "precache" /\ call[c].res = "none" }

\* C18: during a precache run at most `parallelism` create_image calls are
\* in flight.
C18_PrecacheBounded == Cardinality(InFlight) <= parallelism

\* tasks between an existence check that found nothing and the return of
\* create_image: waiting for the permit, or with the transform running
InWindow(c) == c \in Creates /\ call[c].pc \in {"acquire", "spawned", "open", "write"}

\* C21: generation for one key runs more than once only when calls overlap.
\* A call that passes its existence check while no other call on the key is
\* between its own check and its return, and with no failed call on the key,
\* is the first to generate: no other call on the key has returned
\* created = true. And two calls that both found nothing at their check both
\* run the transform: both return created = true.
C21_OnceUnlessOverlap ==
    /\ [](\A c1, c2 \in Creates :
            (/\ c1 # c2 /\ PathOf(c1) = PathOf(c2)
             /\ call[c1].atCheck = "absent" /\ call[c2].atCheck = "absent"
             /\ call[c1].res # "none" /\ call[c2].res # "none"
             /\ {c1, c2} \cap faults = {})
            => call[c1].res = "Ok(true)" /\ call[c2].res = "Ok(true)")
    /\ [][\A c \in Calls :
            (/\ call[c].pc = "check" /\ call'[c].pc \in {"acquire", "spawned"}
             /\ CreatesOn(PathOf(c)) \cap faults = {}
             /\ \A c2 \in CreatesOn(PathOf(c)) \ {c} : ~ InWindow(c2))
            => \A c2 \in CreatesOn(PathOf(c)) \ {c} : call[c2].res # "Ok(true)"]_vars

\* a call that was made while another was generating, and looked only after
\* the other's write, generated nothing: one transform for two calls
C21_Witness ==
    \E c1, c2 \in Creates :
        /\ c1 # c2 /\ PathOf(c1) = PathOf(c2)
        /\ call[c1].origin = "handler" /\ call[c2].origin = "handler"
        /\ call[c1].res = "Ok(true)" /\ call[c1].atCheck = "absent"
        /\ c1 \notin call[c2].before
        /\ call[c2].atCheck = "complete" /\ call[c2].res = "Ok(false)"
        /\ faults = {}

\* C22: once the memory cache holds an entry for a request, no step changes
\* the text stored for it (here even with no transform failing).
C22_EntryNeverChanges ==
    [][faults' = {}
       => \A img \in DOMAIN cache : img \in DOMAIN cache' /\ cache'[img] = cache[img]]_vars

\* C23: a failed generation is not remembered. When create_image(r) is called
\* after an earlier create_image(r) returned an error, and nothing fails this
\* time (no other task works on r), the later call generates again: it
\* returns created = true and the complete artifact is on disk.
C23_FailureNotRemembered ==
    \A c1, c2 \in Creates :
        (/\ c1 # c2
         /\ call[c1].origin = "handler" /\ call[c2].origin = "handler"
         /\ call[c1].img = call[c2].img
         /\ IsErr(call[c1].res)
         /\ c1 \in call[c2].before
         /\ call[c2].res # "none"
         /\ c2 \notin faults
         /\ CreatesOn(PathOf(c1)) = {c1, c2})
        => /\ call[c2].res = "Ok(true)"
           /\ call[c2].atReturn = "complete"

\* tasks whose caller was dropped while their transform was under way
Detached == { c \in Calls : call[c].origin = "detached" /\ call[c].pc # "dropped" }

\* C24: a transform that has been started runs to completion, whether or not
\* its caller is dropped meanwhile: the task returns; when a task whose caller
\* was dropped returns created = true its file is the complete artifact, and a
\* create_image for the key called after that finds the file and returns
\* created = false.
C24_AbandonedRunsOn ==
    /\ \A c \in Calls :
         (call[c].pc \in {"spawned", "open", "write"}) ~> (call[c].res # "none")
    /\ [](\A c \in Detached : call[c].res = "Ok(true)" => call[c].atReturn = "complete")
    /\ [](\A c \in Detached : \A c2 \in Creates :
            (/\ call[c].res = "Ok(true)"
             /\ PathOf(c2) = PathOf(c)
             /\ c \in call[c2].before
             /\ call[c2].res # "none")
            => call[c2].res = "Ok(false)")

\* a caller was dropped after its transform had opened the file; the transform
\* wrote the artifact, and a later request found it
C24_Witness ==
    \E c \in Detached : \E c2 \in Creates :
        /\ call[c].res = "Ok(true)" /\ call[c].pc = "returned"
        /\ files[PathOf(c)] = "complete"
        /\ PathOf(c2) = PathOf(c)
        /\ c \in call[c2].before
        /\ call[c2].res = "Ok(false)" /\ call[c2].pc = "done"

\* the results of the precache job's tasks, in the order of the images found
TaskResults == [i \in 1..Len(precache.tasks) |-> call[precache.tasks[i]].res]

\* C25: when creations fail during cache_app_images, the job returns the
\* error of the earliest failing image in discovery order, every task has
\* returned by then, and the step in which the job returns adds nothing to the
\* memory cache.
C25_FirstErrorNoCache ==
    /\ [](precache.pc = "done"
          => /\ \A i \in 1..Len(precache.tasks) : TaskResults[i] # "none"
             /\ (\E i \in 1..Len(precache.tasks) : IsErr(TaskResults[i]))
                => \E i \in 1..Len(precache.tasks) :
                     /\ IsErr(TaskResults[i])
                     /\ \A j \in 1..(i - 1) : ~ IsErr(TaskResults[j])
                     /\ precache.result = TaskResults[i])
    /\ [][(precache.pc = "waiting" /\ precache'.pc = "done" /\ precache'.result # "Ok")
          => cache' = cache]_vars

\* the job returned the error of its second image; the Blur artifact of its
\* first image was created and is on disk, and the memory cache is empty
C25_Witness ==
    /\ precache.pc = "done"
    /\ Len(precache.tasks) = 2
    /\ precache.images[1].option.variant = "Blur"
    /\ TaskResults[1] = "Ok(true)"
    /\ files[service_get_file_path(precache.images[1])] = "complete"
    /\ IsErr(TaskResults[2])
    /\ precache.result = TaskResults[2]
    /\ cache = << >>

\* C26: in the step in which cache_app_images returns Ok, every image found
\* has a file on disk, and the memory cache then has an entry for every Blur
\* image found whose SVG file can be read, with the file's content as text
\* (here even with no transform failing).
C26_OkMeansCached ==
    [][(/\ precache.pc = "waiting" /\ precache'.pc = "done" /\ precache'.result = "Ok"
        /\ faults = {})
       => \A i \in 1..Len(precache.images) :
            LET img == precache.images[i]
                path == service_get_file_path(img)
            IN /\ files[path] # "absent"
               /\ (img.option.variant = "Blur" /\ readable(files, path))
                  => /\ img \in DOMAIN cache'
                     /\ cache'[img] = files[path]]_vars

\* C27: each route is rendered once with its own empty collector. In every
\* render step the collector ends with exactly what the <Image/>s of that
\* route pushed, nothing of an earlier route, and is appended to the result;
\* when discovery returns, every path of the list has been rendered once.
C27_FreshCollectorPerRoute ==
    /\ [][discovery'.next = discovery.next + 1
          => LET page == discovery.app[discovery.paths[discovery.next]] IN
             /\ discovery'.context = render_pushes(page)
             /\ discovery'.images = discovery.images \o discovery'.context]_discovery
    /\ [](discovery.pc = "done" => discovery.next = Len(discovery.paths) + 1)

\* two routes with images were rendered: the collector holds the second
\* route's requests only, the result those of the first, then of the second
C27_Witness ==
    /\ discovery.pc = "done"
    /\ Len(discovery.paths) = 2
    /\ discovery.paths[1] # discovery.paths[2]
    /\ discovery.app[discovery.paths[1]] = <<ImageA, ImageB, ImageC>>
    /\ discovery.app[discovery.paths[2]] = <<ImageC>>
    /\ Len(discovery.context) = 2
    /\ Len(discovery.images) = 6

\* tasks inside ImageOptimizer::create_image
InCreate == { c \in Creates : call[c].origin = "handler" /\ call[c].res = "none" }

\* C28: the available permits are between 0 and N, and are N whenever no
\* create_image call is in progress, whatever way the calls ended.
C28_PermitsConserved ==
    /\ permits \in 0..parallelism
    /\ InCreate = {} => permits = parallelism

\* one create_image ended with a panicked transform and one with an I/O
\* error; none is in progress and every permit is available
C28_Witness ==
    /\ InCreate = {}
    /\ permits = parallelism
    /\ \E c1, c2 \in Creates :
        /\ call[c1].origin = "handler" /\ call[c1].res = "JoinError"
        /\ call[c2].origin = "handler" /\ call[c2].res = "IOError"

\* C29: every create_image call eventually returns, Ok or Err: no caller
\* waits forever for a permit.
C29_EveryCallReturns ==
    \A c \in Calls : (c \in InCreate) ~> (call[c].res # "none")

\* with one permit, two calls for different requests were inside create_image
\* together, both found nothing, and both have returned
C29_Witness ==
    /\ parallelism = 1
    /\ \E c1, c2 \in Creates :
        /\ call[c1].origin = "handler" /\ call[c2].origin = "handler"
        /\ call[c1].img # call[c2].img
        /\ c1 \notin call[c2].before /\ c2 \notin call[c1].before
        /\ call[c1].atCheck = "absent" /\ call[c2].atCheck = "absent"
        /\ call[c1].res # "none" /\ call[c2].res # "none"

\* C30: the text the memory cache stores for a request is the complete SVG
\* artifact, never an empty or truncated read (here with handler requests
\* only and no transform failing).
C30_CachedTextComplete ==
    (/\ faults = {}
     /\ \A c \in Calls : call[c].origin \in {"none", "handler"})
    => \A img \in DOMAIN cache : cache[img] = "complete"

\* the file named by path is dir or lies below it
Under(path, dir) ==
    /\ Len(resolved(path)) >= Len(resolved(dir))
    /\ SubSeq(resolved(path), 1, Len(resolved(dir))) = resolved(dir)

\* C31: the source file a create_image opens lies under the root, and the
\* artifact it writes lies under <root>/cache/image.
C31_StaysUnderRoot ==
    /\ transform.pc \in {"resize", "encode", "mkdir", "write"}
       => Under(absolute_src_path(transform.img), Root)
    /\ transform.file # "absent"
       => Under(save_path(transform.img), path_from_segments(<<Root, CacheImageDir>>))

\* C33: the response actix_handler returns carries the status of the response
\* image_cache_handler gave for the same request.
C33_ActixSameStatus ==
    \A c \in Calls : codec[c] # 0 => codec[c] = call[c].status

====
